---- MODULE Spec2Model ----
(***************************************************************************)
(* Job market analysis pipeline: the LangGraph workflow of agents/main.py  *)
(* (JobMarketWorkflow.run and main) and the batched agents it calls        *)
(* (TechAnalyzerAgent, MarketReporterAgent, AIImpactAnalyzerAgent).        *)
(*                                                                         *)
(* Specifications:                                                         *)
(*   SpecStage  one call of a batched agent, one loop iteration per step,  *)
(*              then the merge / sort / save that ends the call;           *)
(*   Spec       one run of the program (JobMarketWorkflow.run or main),    *)
(*              one step per graph node, each node calling the same agent  *)
(*              operators as SpecStage as a whole;                         *)
(*   SpecChunk  one call of FinalReporterAgent._chunk_data, one input item *)
(*              per step;                                                  *)
(*   SpecStore  one artifact: its save at the end of a stage, step by      *)
(*              step, and its read at the start of the next run.           *)
(*                                                                         *)
(* Python values: a list is a sequence; a dict is a sequence of            *)
(* [key, count] records in insertion order; None is the record None.       *)
(***************************************************************************)
EXTENDS Integers, Sequences, FiniteSets, TLC

\* ------------------------------------------------------------------ bounds
\* Largest number of job records in a collection.
MaxJobs == 25

\* ------------------------------------------------------- program constants
tech_batch_size == 20
market_batch_size == 20
impact_batch_size == 10
\* market_reporter.py: the slices [:10] and [:5] of the tech summary
top_n == 10
top_few == 5

TechAgent == "TechAnalyzerAgent"
MarketAgent == "MarketReporterAgent"
ImpactAgent == "AIImpactAnalyzerAgent"
BatchedAgents == {TechAgent, MarketAgent, ImpactAgent}

batch_size(agent) ==
    IF agent = TechAgent THEN tech_batch_size
    ELSE IF agent = MarketAgent THEN market_batch_size
    ELSE impact_batch_size

\* ------------------------------------------------------------ Python values
Min(a, b) == IF a < b THEN a ELSE b

\* s[lo:hi] for 0 <= lo (0-based, hi clipped to len(s)).
Slice(s, lo, hi) == SubSeq(s, lo + 1, Min(hi, Len(s)))

\* len(range(0, n, step)), also (n + step - 1) // step.
CeilDiv(n, step) == (n + step - 1) \div step

\* A collection of n job records; a record is identified by its position.
JobList(n) == [j \in 1..n |-> j]

RECURSIVE Concat(_)
Concat(ss) == IF ss = <<>> THEN <<>> ELSE Head(ss) \o Concat(Tail(ss))

Range(s) == {s[k] : k \in 1..Len(s)}

\* All sequences without repetition over the elements of S of length <= n.
RECURSIVE Arrangements(_, _)
Arrangements(S, n) ==
    IF n = 0 THEN {<<>>}
    ELSE {<<>>} \cup {<<x>> \o t : x \in S, t \in Arrangements(S, n - 1)}

NoRepeat(s) == \A a, b \in 1..Len(s) : a # b => s[a] # s[b]

\* list(a_set): the elements once each, in an order the hash seed decides.
ListOfSet(S) == {s \in Arrangements(S, Cardinality(S)) :
                    Range(s) = S /\ Len(s) = Cardinality(S) /\ NoRepeat(s)}

\* ------------------------------------------------- completions of the model
\* A count as it comes out of json.loads: an integer, a string that int()
\* parses ("2"), or a string that it does not ("many").
IntVal(n) == [type |-> "int", val |-> n]
NumStr(n) == [type |-> "numstr", val |-> n]
TextVal == [type |-> "text", val |-> 0]

Keys == {"python", "go", "rust"}
CountValues == {IntVal(1), IntVal(2), TextVal}
Strings == {"a", "b", "c"}

Item(k, v) == [key |-> k, count |-> v]

\* The dicts {key: count} with at most two keys, in every insertion order.
CounterDicts ==
    {<<>>} \cup {<<Item(k, v)>> : k \in Keys, v \in CountValues \cup {NumStr(2)}}
    \cup {d \in {<<Item(k1, v1), Item(k2, v2)>> :
                    k1 \in Keys, k2 \in Keys, v1 \in CountValues, v2 \in CountValues} :
            d[1].key # d[2].key}

\* The lists of distinct strings with at most two elements, plus one list
\* that repeats an element.
StringLists == Arrangements(Strings, 2) \cup {<<"a", "a">>}

ServiceError == [kind |-> "service_error", analysis |-> <<>>]
Unparseable == [kind |-> "unparseable", analysis |-> <<>>]
Json(a) == [kind |-> "json", analysis |-> a]

TechAnalysis(skills, stacks, trends, edu) ==
    [technical_skills |-> skills, tech_stacks |-> stacks,
     emerging_trends |-> trends, education_requirements |-> edu]

MarketAnalysis(sal, exp, ind, arr, ben) ==
    [salary_insights |-> sal, experience_requirements |-> exp,
     industry_sectors |-> ind, work_arrangements |-> arr, benefits_perks |-> ben]

ImpactAnalysis(role, skills, trad, fut) ==
    [ai_role_analysis |-> role, required_ai_skills |-> skills,
     impact_on_traditional_roles |-> trad, future_adaptations |-> fut]

TechCounterCats == {"technical_skills", "tech_stacks", "education_requirements"}
MarketCounterCats == {"salary_insights", "experience_requirements",
                      "industry_sectors", "work_arrangements", "benefits_perks"}
ImpactListCats == {"ai_role_analysis", "required_ai_skills",
                   "impact_on_traditional_roles", "future_adaptations"}

NoCounts == <<>>
NoStrings == <<>>

\* The analyses a completion of the tech prompt may parse to: every counter
\* dict in technical_skills, every string list in emerging_trends, and two
\* analyses that fill the other categories as well.
TechAnalyses ==
    {TechAnalysis(c, NoCounts, NoStrings, NoCounts) : c \in CounterDicts}
    \cup {TechAnalysis(NoCounts, NoCounts, t, NoCounts) : t \in StringLists}
    \cup {TechAnalysis(<<Item("go", IntVal(1))>>, <<Item("python", IntVal(2))>>,
                        <<"a", "b">>, <<Item("rust", IntVal(1))>>),
           TechAnalysis(<<Item("python", IntVal(1))>>, <<Item("go", IntVal(2))>>,
                        <<"b", "c">>, <<Item("rust", TextVal)>>)}

MarketAnalyses ==
    {MarketAnalysis(c, NoCounts, NoCounts, NoCounts, NoCounts) : c \in CounterDicts}
    \cup {MarketAnalysis(<<Item("go", IntVal(1))>>, <<Item("python", IntVal(2))>>,
                          <<Item("rust", NumStr(2))>>, <<Item("go", TextVal)>>,
                          <<Item("python", IntVal(1)), Item("go", IntVal(1))>>),
           MarketAnalysis(<<Item("python", IntVal(1))>>, <<Item("go", IntVal(2))>>,
                          <<Item("rust", IntVal(1))>>, <<Item("python", IntVal(1))>>,
                          <<Item("go", IntVal(1)), Item("python", IntVal(1))>>)}

ImpactAnalyses ==
    {ImpactAnalysis(t, NoStrings, NoStrings, NoStrings) : t \in StringLists}
    \cup {ImpactAnalysis(<<"a">>, <<"b", "a">>, <<"c">>, <<"a", "b">>),
           ImpactAnalysis(<<"b">>, <<"a", "c">>, <<"c">>, <<"b", "c">>)}

Analyses(agent) ==
    IF agent = TechAgent THEN TechAnalyses
    ELSE IF agent = MarketAgent THEN MarketAnalyses
    ELSE ImpactAnalyses

\* What one call of the text-generation service may give back.
Completions(agent) == {ServiceError, Unparseable} \cup {Json(a) : a \in Analyses(agent)}

\* ------------------------------------------------------------------- dicts
DictHas(d, k) == \E x \in 1..Len(d) : d[x].key = k

\* d.get(k, default)
DictGet(d, k, default) ==
    IF DictHas(d, k) THEN d[CHOOSE x \in 1..Len(d) : d[x].key = k].count ELSE default

\* d[k] = v: an existing key keeps its place, a new key goes last.
DictSet(d, k, v) ==
    IF DictHas(d, k)
    THEN [x \in 1..Len(d) |-> IF d[x].key = k THEN Item(k, v) ELSE d[x]]
    ELSE Append(d, Item(k, v))

DictKeys(d) == [x \in 1..Len(d) |-> d[x].key]

\* The place of x in the list s (0 when absent).
IndexOf(s, x) == IF \E a \in 1..Len(s) : s[a] = x
                 THEN CHOOSE a \in 1..Len(s) : s[a] = x /\ \A b \in 1..(a - 1) : s[b] # x
                 ELSE 0

\* list(dict.fromkeys(s)): each element once, at its first place.
RECURSIVE DedupFirstSeen(_)
DedupFirstSeen(s) ==
    IF s = <<>> THEN <<>>
    ELSE LET front == DedupFirstSeen(SubSeq(s, 1, Len(s) - 1))
             last == s[Len(s)]
         IN  IF \E a \in 1..Len(front) : front[a] = last THEN front ELSE Append(front, last)

\* One step of a stable descending sort: x goes before the first element
\* with a smaller count, after every element with an equal one.
InsertDescReversedTies(sorted, x) ==
    LET before == {a \in 1..Len(sorted) : sorted[a].count > x.count}
        n == Cardinality(before)
    IN  SubSeq(sorted, 1, n) \o <<x>> \o SubSeq(sorted, n + 1, Len(sorted))

InsertDesc(sorted, x) ==
    LET before == {a \in 1..Len(sorted) : sorted[a].count >= x.count}
        n == Cardinality(before)
    IN  SubSeq(sorted, 1, n) \o <<x>> \o SubSeq(sorted, n + 1, Len(sorted))

\* dict(sorted(d.items(), key=lambda x: x[1], reverse=True))
RECURSIVE SortByCountDesc(_)
SortByCountDesc(d) ==
    IF d = <<>> THEN <<>>
    ELSE InsertDesc(SortByCountDesc(SubSeq(d, 1, Len(d) - 1)), d[Len(d)])

\* The items of one category over all the analyses, in batch order.
CategoryItems(all_analyses, cat) ==
    Concat([a \in 1..Len(all_analyses) |-> all_analyses[a][cat]])

\* ---------------------------------------------------------- the batch loop
\* The locals of one call of a batched agent while its loop runs:
\*   batch_no      iterations begun so far
\*   sent          the batch of each iteration, as put into the prompt
\*   info_log      the "Processing batch i of total" records, as <<i, total>>
\*   completions   what the service gave back, per iteration
\*   all_analyses  the parsed analyses kept (all_impacts in the impact agent)
\*   raised        "" or the exception that left the loop
\*   events        the log records and the worker calls, in the order made
NewLoop ==
    [batch_no |-> 0, sent |-> <<>>, info_log |-> <<>>, completions |-> <<>>,
     all_analyses |-> <<>>, raised |-> "", events |-> <<>>]

\* len(range(0, len(job_data), batch_size)) and num_batches
NumBatchesFloor(job_data, agent) == Len(job_data) \div batch_size(agent)

NumBatches(job_data, agent) == CeilDiv(Len(job_data), batch_size(agent))

\* job_data[i:i + batch_size] with i the k-th element of range(0, len, batch_size)
RangeBatch(job_data, b, k) == Slice(job_data, k * b, k * b + b)

\* job_data[start_idx:end_idx] of iteration i of range(num_batches)
IndexBatch(job_data, b, i) == Slice(job_data, i * b, Min((i + 1) * b, Len(job_data)))

\* What the body of the loop does with a completion.
\* An unparseable completion leaving the loop like a service error.
TechOutcomeRaising(r) ==
    IF r.kind = "json" THEN "append" ELSE "raise"

\* Tech and market: llm.invoke is outside the inner try, json.loads inside it.
TechOutcome(r) ==
    IF r.kind = "service_error" THEN "raise"
    ELSE IF r.kind = "unparseable" THEN "skip"
    ELSE "append"

MarketOutcome(r) ==
    IF r.kind = "service_error" THEN "raise"
    ELSE IF r.kind = "unparseable" THEN "skip"
    ELSE "append"

\* Impact: get_completion and json.loads are in one try whose handler re-raises.
ImpactOutcome(r) ==
    IF r.kind = "json" THEN "append" ELSE "raise"

Cause(r) == IF r.kind = "service_error" THEN "ExternalServiceError" ELSE "JSONDecodeError"

\* The "Processing batch" record, then the call of the worker on the batch.
LogThenInvoke(l, batch, index, total) ==
    l.events \o <<[type |-> "log", index |-> index, total |-> total],
                  [type |-> "invoke", batch |-> batch]>>

\* An iteration that calls the worker again when the completion is no analysis.
LoopStepRetrying(l, batch, index, total, r, outcome) ==
    [batch_no |-> l.batch_no + 1,
     sent |-> Append(l.sent, batch),
     info_log |-> Append(l.info_log, <<index, total>>),
     completions |-> Append(l.completions, r),
     all_analyses |-> IF outcome = "append" THEN Append(l.all_analyses, r.analysis)
                      ELSE l.all_analyses,
     raised |-> IF outcome = "raise" THEN Cause(r) ELSE "",
     events |-> IF outcome = "append" THEN LogThenInvoke(l, batch, index, total)
                ELSE Append(LogThenInvoke(l, batch, index, total),
                            [type |-> "invoke", batch |-> batch])]

LoopStep(l, batch, index, total, r, outcome) ==
    [batch_no |-> l.batch_no + 1,
     sent |-> Append(l.sent, batch),
     info_log |-> Append(l.info_log, <<index, total>>),
     completions |-> Append(l.completions, r),
     all_analyses |-> IF outcome = "append" THEN Append(l.all_analyses, r.analysis)
                      ELSE l.all_analyses,
     raised |-> IF outcome = "raise" THEN Cause(r) ELSE "",
     events |-> LogThenInvoke(l, batch, index, total)]

TechBatchStep(job_data, l, r) ==
    LET i == l.batch_no * tech_batch_size
    IN  LoopStep(l, RangeBatch(job_data, tech_batch_size, l.batch_no),
                 (i \div tech_batch_size) + 1,
                 CeilDiv(Len(job_data), tech_batch_size), r, TechOutcome(r))

MarketBatchStep(job_data, l, r) ==
    LET i == l.batch_no * market_batch_size
    IN  LoopStep(l, RangeBatch(job_data, market_batch_size, l.batch_no),
                 (i \div market_batch_size) + 1,
                 CeilDiv(Len(job_data), market_batch_size), r, MarketOutcome(r))

ImpactBatchStep(job_data, l, r) ==
    LoopStep(l, IndexBatch(job_data, impact_batch_size, l.batch_no),
             l.batch_no + 1,
             CeilDiv(Len(job_data), impact_batch_size), r, ImpactOutcome(r))

BatchStep(agent, job_data, l, r) ==
    IF agent = TechAgent THEN TechBatchStep(job_data, l, r)
    ELSE IF agent = MarketAgent THEN MarketBatchStep(job_data, l, r)
    ELSE ImpactBatchStep(job_data, l, r)

LoopRunning(agent, job_data, l) ==
    l.raised = "" /\ l.batch_no < NumBatches(job_data, agent)

LoopDone(agent, job_data, l) ==
    l.raised = "" /\ l.batch_no >= NumBatches(job_data, agent)

\* The whole loop, given the completion of every call it will make.
RECURSIVE RunLoop(_, _, _, _)
RunLoop(agent, job_data, l, rs) ==
    IF ~LoopRunning(agent, job_data, l) \/ rs = <<>> THEN l
    ELSE RunLoop(agent, job_data, BatchStep(agent, job_data, l, Head(rs)), Tail(rs))

\* ---------------------------------------------------------------- the merge
\* combined[key] = combined.get(key, 0) + count over the items, in order.
\* Tech adds the count as parsed: int + str is a TypeError.
RECURSIVE TechMergeCounts(_, _)
TechMergeCounts(combined, items) ==
    IF items = <<>> \/ combined.raised THEN combined
    ELSE LET it == Head(items)
         IN  IF it.count.type # "int"
             THEN [raised |-> TRUE, dict |-> combined.dict]
             ELSE TechMergeCounts(
                    [raised |-> FALSE,
                     dict |-> DictSet(combined.dict, it.key,
                                      DictGet(combined.dict, it.key, 0) + it.count.val)],
                    Tail(items))

\* int(val), 0 on ValueError or TypeError
ensure_int(v) ==
    IF v.type = "int" THEN v.val
    ELSE IF v.type = "numstr" THEN v.val
    ELSE 0

RECURSIVE MarketOverwriteCounts(_, _)
MarketOverwriteCounts(combined, items) ==
    IF items = <<>> THEN combined
    ELSE LET it == Head(items)
         IN  MarketOverwriteCounts(DictSet(combined, it.key, ensure_int(it.count)),
                                   Tail(items))

RECURSIVE MarketMergeCounts(_, _)
MarketMergeCounts(combined, items) ==
    IF items = <<>> THEN combined
    ELSE LET it == Head(items)
         IN  MarketMergeCounts(
                DictSet(combined, it.key, DictGet(combined, it.key, 0) + ensure_int(it.count)),
                Tail(items))

EmptyMerge == [raised |-> FALSE, dict |-> <<>>]

\* TechAnalyzerAgent.analyze_tech_requirements after its loop: merge, sort,
\* save, return. trend_order is the order list(set) gives the trends.
TechCombine(all_analyses, trend_order) ==
    LET skills == TechMergeCounts(EmptyMerge, CategoryItems(all_analyses, "technical_skills"))
        stacks == TechMergeCounts(EmptyMerge, CategoryItems(all_analyses, "tech_stacks"))
        edu == TechMergeCounts(EmptyMerge,
                               CategoryItems(all_analyses, "education_requirements"))
    IN  IF skills.raised \/ stacks.raised \/ edu.raised
        THEN [raised |-> "TypeError", value |-> <<>>]
        ELSE [raised |-> "",
              value |-> [technical_skills |-> SortByCountDesc(skills.dict),
                         tech_stacks |-> SortByCountDesc(stacks.dict),
                         emerging_trends |-> trend_order,
                         education_requirements |-> SortByCountDesc(edu.dict)]]

\* The set the trends are collected in.
TechTrendSet(all_analyses) == Range(CategoryItems(all_analyses, "emerging_trends"))

MarketCategory(all_analyses, cat) ==
    SortByCountDesc(MarketMergeCounts(<<>>, CategoryItems(all_analyses, cat)))

\* MarketReporterAgent.generate_report after its loop.
MarketCombine(all_analyses, tech_analysis) ==
    [raised |-> "",
     value |-> [salary_insights |-> MarketCategory(all_analyses, "salary_insights"),
                experience_requirements |->
                    MarketCategory(all_analyses, "experience_requirements"),
                industry_sectors |-> MarketCategory(all_analyses, "industry_sectors"),
                work_arrangements |-> MarketCategory(all_analyses, "work_arrangements"),
                benefits_perks |-> MarketCategory(all_analyses, "benefits_perks"),
                tech_requirements |->
                    [top_skills |-> Slice(tech_analysis.technical_skills, 0, top_n),
                     top_stacks |-> Slice(tech_analysis.tech_stacks, 0, top_n),
                     emerging_trends |-> Slice(tech_analysis.emerging_trends, 0, top_few),
                     top_education |->
                        Slice(tech_analysis.education_requirements, 0, top_few)]]]

ImpactCategory(all_impacts, cat) == DedupFirstSeen(CategoryItems(all_impacts, cat))

\* AIImpactAnalyzerAgent.analyze_ai_impact after its loop.
ImpactCombine(all_impacts) ==
    [raised |-> "",
     value |-> [ai_role_analysis |-> ImpactCategory(all_impacts, "ai_role_analysis"),
                required_ai_skills |-> ImpactCategory(all_impacts, "required_ai_skills"),
                impact_on_traditional_roles |->
                    ImpactCategory(all_impacts, "impact_on_traditional_roles"),
                future_adaptations |-> ImpactCategory(all_impacts, "future_adaptations")]]

\* -------------------------------------------------------------------- state
None == [is_none |-> TRUE]
Val(v) == [is_none |-> FALSE, v |-> v]

Files == {"job_data.json", "tech_analysis.json", "market_report.json",
          "ai_impact_analysis.json", "final_report.md", "workflow_state.json"}

EmptyDisk == [f \in Files |-> None]

\* BaseJobAgent.save_json: the file holds the data afterwards.
save_json(d, data, filename) == [d EXCEPT ![filename] = Val(data)]

EmptyTech == TechAnalysis(<<>>, <<>>, <<>>, <<>>)
SampleTech == TechAnalysis(<<Item("python", 3), Item("go", 1)>>, <<Item("rust", 1)>>,
                           <<"a", "b">>, <<>>)

\* ----------------------------------------------------- the pipeline's runs
\* The job counts a search may end with: none, one batch, several batches.
JobCounts == {0, 5, MaxJobs}

\* What a completion may be in a run of the whole pipeline.
RunAnalysis(agent) ==
    IF agent = TechAgent
    THEN TechAnalysis(<<Item("python", IntVal(2)), Item("go", IntVal(1))>>,
                      <<Item("rust", IntVal(1))>>, <<"a">>, <<>>)
    ELSE IF agent = MarketAgent
    THEN MarketAnalysis(<<Item("go", IntVal(1))>>, <<>>, <<>>,
                        <<Item("python", IntVal(1))>>, <<>>)
    ELSE ImpactAnalysis(<<"a">>, <<"b">>, <<>>, <<>>)

RunCompletions(agent) == {ServiceError, Unparseable, Json(RunAnalysis(agent))}

\* The outcomes of a call: [raised |-> "" or the exception, value |-> the
\* value returned], one per choice of completions (and of set order).
analyze_tech_requirements(job_data, completions) ==
    UNION {LET l == RunLoop(TechAgent, job_data, NewLoop, rs)
           IN  IF l.raised # "" THEN {[raised |-> l.raised, value |-> <<>>]}
               ELSE {TechCombine(l.all_analyses, o) :
                        o \in ListOfSet(TechTrendSet(l.all_analyses))} :
           rs \in [1..NumBatches(job_data, TechAgent) -> completions]}

generate_report(job_data, tech_analysis, completions) ==
    {LET l == RunLoop(MarketAgent, job_data, NewLoop, rs)
     IN  IF l.raised # "" THEN [raised |-> l.raised, value |-> <<>>]
         ELSE MarketCombine(l.all_analyses, tech_analysis) :
     rs \in [1..NumBatches(job_data, MarketAgent) -> completions]}

analyze_ai_impact(job_data, tech_analysis, market_report, completions) ==
    {LET l == RunLoop(ImpactAgent, job_data, NewLoop, rs)
     IN  IF l.raised # "" THEN [raised |-> l.raised, value |-> <<>>]
         ELSE ImpactCombine(l.all_analyses) :
     rs \in [1..NumBatches(job_data, ImpactAgent) -> completions]}

\* FinalReporterAgent.generate_comprehensive_report: what each parameter was
\* bound to goes into the report; any of its completions may fail.
generate_comprehensive_report(tech_analysis, market_analysis, ai_impact_analysis, timestamp) ==
    {[raised |-> "ExternalServiceError", value |-> <<>>],
     [raised |-> "",
      value |-> [tech_analysis |-> tech_analysis, market_analysis |-> market_analysis,
                 ai_impact_analysis |-> ai_impact_analysis, timestamp |-> timestamp]]}

\* A file that exists and holds no complete document: open(path, "w") has
\* truncated it and the dump did not finish.
Partial == [is_none |-> FALSE, partial |-> TRUE]

\* json.load of the file succeeds.
Readable(x) == ~x.is_none /\ "partial" \notin DOMAIN x

\* JobDataCollectorAgent.collect_jobs: the outcomes [jobs, disk, searched]; a
\* cached file that cannot be read is logged and the search is made instead.
collect_jobs(d, force_new) ==
    IF ~d["job_data.json"].is_none /\ ~force_new /\ Readable(d["job_data.json"])
    THEN {[jobs |-> d["job_data.json"].v, disk |-> d, searched |-> FALSE]}
    ELSE {[jobs |-> JobList(n), disk |-> save_json(d, JobList(n), "job_data.json"),
           searched |-> TRUE] : n \in JobCounts}

\* Artifacts left by an earlier run.
OldTech == SampleTech
OldMarket == MarketCombine(<<>>, SampleTech).value
OldImpact == ImpactCombine(<<ImpactAnalysis(<<"c">>, <<>>, <<>>, <<>>)>>).value
OldReport == [tech_analysis |-> <<>>, market_analysis |-> <<>>,
              ai_impact_analysis |-> <<>>, timestamp |-> <<>>]

Disks ==
    {[f \in Files |->
        IF f = "job_data.json" THEN j
        ELSE IF f = "tech_analysis.json" THEN (IF t THEN Val(OldTech) ELSE None)
        ELSE IF f = "market_report.json" THEN (IF m THEN Val(OldMarket) ELSE None)
        ELSE IF f = "ai_impact_analysis.json" THEN (IF a THEN Val(OldImpact) ELSE None)
        ELSE IF f = "final_report.md" THEN (IF r THEN Val(OldReport) ELSE None)
        ELSE None] :
     j \in {None} \cup {Val(JobList(n)) : n \in JobCounts},
     t \in BOOLEAN, m \in BOOLEAN, a \in BOOLEAN, r \in BOOLEAN}

\* A state that starts with the market report of an earlier run.
initial_state_stale ==
    [job_data |-> None, tech_analysis |-> None,
     market_report |-> Val(MarketCombine(<<>>, SampleTech).value),
     ai_impact |-> None, final_report |-> None, error |-> None]

initial_state ==
    [job_data |-> None, tech_analysis |-> None, market_report |-> None,
     ai_impact |-> None, final_report |-> None, error |-> None]

\* bool(x) of a state field: None and the empty list are false; the dicts
\* the agents return always have their category keys.
TruthyListNotNone(x) == ~x.is_none
TruthyList(x) == ~x.is_none /\ Len(x.v) > 0
TruthyDict(x) == ~x.is_none

ErrDropped(prefix, cause) == None
Err(prefix, cause) == Val([prefix |-> prefix, cause |-> cause])

\* ------------------------------------------- FinalReporterAgent._chunk_data
\* max_size of _chunk_data.
max_size == 50000

\* Largest number of items of a list, of keys of a mapping, and of elements of
\* a list value given to _chunk_data.
MaxItems == 3

\* JSON values: a string or a number is known by the length of its
\* serialization (size); a list by its elements, a dict by its fields
\* [key, key_size, value] in insertion order (parts).  id is the position of
\* the value in the container it was taken from.
Str(id, n) == [kind |-> "str", id |-> id, size |-> n, parts |-> <<>>]
Num(id, n) == [kind |-> "num", id |-> id, size |-> n, parts |-> <<>>]
List(id, elems) == [kind |-> "list", id |-> id, size |-> 0, parts |-> elems]
Dict(id, fields) == [kind |-> "dict", id |-> id, size |-> 0, parts |-> fields]
Field(key, key_size, value) == [key |-> key, key_size |-> key_size, value |-> value]

\* len(json.dumps(v)): "[" and "]" around the elements joined by ", "; "{" and
\* "}" around the fields "key": value joined by ", ".
RECURSIVE json_size(_)
json_size(v) ==
    LET RECURSIVE Sum(_)
        Sum(s) == IF s = <<>> THEN 0 ELSE Head(s) + Sum(Tail(s))
        n == Len(v.parts)
    IN  IF v.kind = "list"
        THEN 2 + Sum([k \in 1..n |-> json_size(v.parts[k])])
               + (IF n = 0 THEN 0 ELSE 2 * (n - 1))
        ELSE IF v.kind = "dict"
        THEN 2 + Sum([k \in 1..n |->
                        v.parts[k].key_size + 2 + 2 + json_size(v.parts[k].value)])
               + (IF n = 0 THEN 0 ELSE 2 * (n - 1))
        ELSE v.size

\* str(v)[:limit] as a JSON string: the text of a string is its serialization
\* without the two quotes, the text of any other value is as long as its
\* serialization; the cut text is serialized between two quotes again.
TruncatedStr(v, limit) ==
    Str(v.id, Min(IF v.kind = "str" THEN v.size - 2 ELSE json_size(v), limit) + 2)

\* {k: str(v)[:max_size//2] if isinstance(v, str) else v for k, v in item.items()}
summary_item(item) ==
    Dict(item.id,
         [k \in 1..Len(item.parts) |->
            LET f == item.parts[k]
            IN  IF f.value.kind = "str"
                THEN Field(f.key, f.key_size, TruncatedStr(f.value, max_size \div 2))
                ELSE f])

\* The locals of _chunk_data.
NewChunking == [index |-> 0, chunks |-> <<>>, current_chunk |-> <<>>,
                current_size |-> 0, raised |-> ""]

\* The greedy branch shared by the two loops: entry is the item, or the
\* (key, value) field, and size the length of the serialized item or value.
GreedyStep(l, entry, size) ==
    IF l.current_size + size > max_size
    THEN [l EXCEPT !.chunks = IF l.current_chunk # <<>>
                              THEN Append(l.chunks, l.current_chunk) ELSE l.chunks,
                   !.current_chunk = <<entry>>,
                   !.current_size = size]
    ELSE [l EXCEPT !.current_chunk = Append(l.current_chunk, entry),
                   !.current_size = l.current_size + size]

\* One iteration of "for item in data" (list input).
ListItemStep(l0, item) ==
    LET l == [l0 EXCEPT !.index = l0.index + 1]
        item_size == json_size(item)
    IN  IF item_size > max_size
        THEN IF item.kind = "dict"
             THEN [l EXCEPT !.chunks = Append(l.chunks, <<summary_item(item)>>)]
             ELSE [l EXCEPT !.chunks = Append(l.chunks, <<TruncatedStr(item, max_size)>>)]
        ELSE GreedyStep(l, item, item_size)

\* [{key: value[i:i + chunk_size]} for i in range(0, len(value), chunk_size)]
SubLists(f, chunk_size) ==
    LET n == Len(f.value.parts)
    IN  [k \in 1..CeilDiv(n, chunk_size) |->
            <<Field(f.key, f.key_size,
                    List(f.value.id,
                         Slice(f.value.parts, (k - 1) * chunk_size,
                               (k - 1) * chunk_size + chunk_size)))>>]

\* One iteration of "for key, value in data.items()" (mapping input).
DictItemStep(l0, f) ==
    LET l == [l0 EXCEPT !.index = l0.index + 1]
        value_size == json_size(f.value)
        chunk_size == Len(f.value.parts) \div ((value_size \div max_size) + 1)
    IN  IF value_size > max_size
        THEN IF f.value.kind = "list"
             THEN IF chunk_size = 0
                  THEN [l EXCEPT !.raised = "ValueError"]   \* range() arg 3 is zero
                  ELSE [l EXCEPT !.chunks = l.chunks \o SubLists(f, chunk_size)]
             ELSE [l EXCEPT !.chunks =
                       Append(l.chunks,
                              <<Field(f.key, f.key_size, TruncatedStr(f.value, max_size))>>)]
        ELSE GreedyStep(l, f, value_size)

\* The open chunk appended without the test that it holds something.
ChunksReturnedUntested(l) == Append(l.chunks, l.current_chunk)

\* if current_chunk: chunks.append(current_chunk); return chunks
ChunksReturned(l) ==
    IF l.current_chunk # <<>> THEN Append(l.chunks, l.current_chunk) ELSE l.chunks

\* A chunk as the JSON value it is: a list of items, or a dict of fields.
ChunkValue(data, chunk) ==
    IF data.kind = "list" THEN List(0, chunk) ELSE Dict(0, chunk)

VARIABLES
    call,       \* SpecStage, SpecChunk, SpecStore: the agent called and its arguments
    loop,       \* SpecStage, SpecChunk, SpecStore: the locals of the loop
    status,     \* SpecStage, SpecChunk, SpecStore: "looping", "returned" or "raised"
    result,     \* SpecStage, SpecChunk, SpecStore: the value returned (None before, and on a raise)
    disk,       \* the files under data/
    entry,      \* Spec: "run" (JobMarketWorkflow.run) or "main" (main)
    args_force_new,         \* Spec: --force-new was given
    force_new_collection,   \* Spec: JobMarketWorkflow.force_new_collection
    disk0,      \* Spec: the files when the run began
    pc,         \* Spec: the node, or the part of main, to execute next
    state,      \* Spec: the JobMarketState (the locals of main)
    entered,    \* Spec: the nodes entered, in order
    invoked,    \* Spec: the agents' compute functions called in this run
    loaded,     \* Spec: the files whose content was taken as a stage's output
    error_log,  \* Spec: the records logger.error wrote, as [node, cause]
    exc,        \* Spec: "" or the exception that reached the caller
    previous    \* Spec: None, or the final state and files of the run before

stage_vars == <<call, loop, status, result>>
run_vars == <<entry, previous, args_force_new, force_new_collection, disk0, pc, state, entered,
              invoked, loaded, error_log, exc>>
vars == <<call, loop, status, result, disk, entry, previous, args_force_new, force_new_collection,
          disk0, pc, state, entered, invoked, loaded, error_log, exc>>

RunIdle ==
    /\ entry = "none" /\ args_force_new = FALSE /\ force_new_collection = FALSE
    /\ disk0 = EmptyDisk /\ pc = "none" /\ state = initial_state /\ entered = <<>>
    /\ invoked = {} /\ loaded = {} /\ error_log = <<>> /\ exc = ""
    /\ previous = None

\* ---------------------------------------------------- SpecStage: one call
StageCalls ==
    {[agent |-> a, job_data |-> JobList(n), tech_analysis |-> EmptyTech] :
        a \in {TechAgent, ImpactAgent}, n \in 0..MaxJobs}
    \cup {[agent |-> MarketAgent, job_data |-> JobList(n), tech_analysis |-> SampleTech] :
            n \in 0..MaxJobs}

StageInit ==
    /\ call \in StageCalls
    /\ loop = NewLoop
    /\ status = "looping"
    /\ result = None
    /\ disk = EmptyDisk
    /\ RunIdle

\* One iteration of the loop of analyze_tech_requirements.
TechProcessBatch ==
    /\ call.agent = TechAgent /\ status = "looping"
    /\ LoopRunning(TechAgent, call.job_data, loop)
    /\ \E r \in Completions(TechAgent) :
          /\ loop' = TechBatchStep(call.job_data, loop, r)
          /\ status' = IF TechOutcome(r) = "raise" THEN "raised" ELSE "looping"
    /\ UNCHANGED <<call, result, disk, run_vars>>

\* One iteration of the loop of generate_report.
MarketProcessBatch ==
    /\ call.agent = MarketAgent /\ status = "looping"
    /\ LoopRunning(MarketAgent, call.job_data, loop)
    /\ \E r \in Completions(MarketAgent) :
          /\ loop' = MarketBatchStep(call.job_data, loop, r)
          /\ status' = IF MarketOutcome(r) = "raise" THEN "raised" ELSE "looping"
    /\ UNCHANGED <<call, result, disk, run_vars>>

\* One iteration of the loop of analyze_ai_impact.
ImpactProcessBatch ==
    /\ call.agent = ImpactAgent /\ status = "looping"
    /\ LoopRunning(ImpactAgent, call.job_data, loop)
    /\ \E r \in Completions(ImpactAgent) :
          /\ loop' = ImpactBatchStep(call.job_data, loop, r)
          /\ status' = IF ImpactOutcome(r) = "raise" THEN "raised" ELSE "looping"
    /\ UNCHANGED <<call, result, disk, run_vars>>

\* The rest of analyze_tech_requirements: merge, sort, save, return.
TechFinish ==
    /\ call.agent = TechAgent /\ status = "looping"
    /\ LoopDone(TechAgent, call.job_data, loop)
    /\ \E trend_order \in ListOfSet(TechTrendSet(loop.all_analyses)) :
          LET out == TechCombine(loop.all_analyses, trend_order)
          IN  IF out.raised # ""
              THEN /\ status' = "raised"
                   /\ loop' = [loop EXCEPT !.raised = out.raised]
                   /\ UNCHANGED <<result, disk>>
              ELSE /\ status' = "returned"
                   /\ result' = Val(out.value)
                   /\ disk' = save_json(disk, out.value, "tech_analysis.json")
                   /\ UNCHANGED loop
    /\ UNCHANGED <<call, run_vars>>

\* The rest of generate_report.
MarketFinish ==
    /\ call.agent = MarketAgent /\ status = "looping"
    /\ LoopDone(MarketAgent, call.job_data, loop)
    /\ LET out == MarketCombine(loop.all_analyses, call.tech_analysis)
       IN  /\ status' = "returned"
           /\ result' = Val(out.value)
           /\ disk' = save_json(disk, out.value, "market_report.json")
    /\ UNCHANGED <<call, loop, run_vars>>

\* The rest of analyze_ai_impact.
ImpactFinish ==
    /\ call.agent = ImpactAgent /\ status = "looping"
    /\ LoopDone(ImpactAgent, call.job_data, loop)
    /\ LET out == ImpactCombine(loop.all_analyses)
       IN  /\ status' = "returned"
           /\ result' = Val(out.value)
           /\ disk' = save_json(disk, out.value, "ai_impact_analysis.json")
    /\ UNCHANGED <<call, loop, run_vars>>

StageNext ==
    \/ TechProcessBatch
    \/ MarketProcessBatch
    \/ ImpactProcessBatch
    \/ TechFinish
    \/ MarketFinish
    \/ ImpactFinish

SpecStage == StageInit /\ [][StageNext]_vars

\* ---------------------------------------------------- Spec: one run
\* The edges of the graph (END is "returned"), with one edge misdirected.
workflow_edges_skipping ==
    [collect_data |-> "generate_market_report",
     analyze_tech |-> "generate_market_report",
     generate_market_report |-> "analyze_ai_impact",
     analyze_ai_impact |-> "generate_final_report",
     generate_final_report |-> "returned"]

\* setup_workflow: the edges of the graph; END is "returned".
workflow_edges ==
    [collect_data |-> "analyze_tech",
     analyze_tech |-> "generate_market_report",
     generate_market_report |-> "analyze_ai_impact",
     analyze_ai_impact |-> "generate_final_report",
     generate_final_report |-> "returned"]

Init ==
    /\ entry \in {"run", "main"}
    /\ disk \in Disks
    /\ disk0 = disk
    /\ \E f \in BOOLEAN :
          IF entry = "run"
          THEN force_new_collection = f /\ args_force_new = FALSE
          ELSE args_force_new = f /\ force_new_collection = FALSE
    /\ pc = "start"
    /\ state = initial_state
    /\ entered = <<>> /\ invoked = {} /\ loaded = {} /\ error_log = <<>> /\ exc = ""
    /\ previous = None
    /\ call = [agent |-> "none", job_data |-> <<>>, tech_analysis |-> EmptyTech]
    /\ loop = NewLoop /\ status = "idle" /\ result = None

\* JobMarketWorkflow.run up to the graph's entry point.
Run ==
    /\ entry = "run" /\ pc = "start"
    /\ state' = initial_state
    /\ pc' = "collect_data"
    /\ UNCHANGED <<stage_vars, disk, entry, previous, args_force_new, force_new_collection, disk0,
                   entered, invoked, loaded, error_log, exc>>

\* JobMarketWorkflow.run called once more, on the files the run before left.
RunAgain ==
    /\ entry = "run" /\ pc = "returned" /\ previous.is_none
    /\ previous' = Val([state |-> state, disk |-> disk])
    /\ state' = initial_state
    /\ disk0' = disk
    /\ entered' = <<>> /\ invoked' = {} /\ loaded' = {} /\ error_log' = <<>>
    /\ pc' = "collect_data"
    /\ UNCHANGED <<stage_vars, disk, entry, args_force_new, force_new_collection, exc>>

\* Node collect_data.
CollectData ==
    /\ entry = "run" /\ pc = "collect_data"
    /\ entered' = Append(entered, "collect_data")
    /\ IF ~disk["job_data.json"].is_none /\ ~force_new_collection
       THEN /\ state' = [state EXCEPT !.job_data = Val(disk["job_data.json"].v)]
            /\ loaded' = loaded \cup {"job_data.json"}
            /\ UNCHANGED <<disk, invoked>>
       ELSE \E out \in collect_jobs(disk, force_new_collection) :
                /\ state' = [state EXCEPT !.job_data = Val(out.jobs)]
                /\ disk' = out.disk
                /\ invoked' = invoked \cup {"collect_jobs"}
                /\ loaded' = IF out.searched THEN loaded ELSE loaded \cup {"job_data.json"}
    /\ pc' = workflow_edges["collect_data"]
    /\ UNCHANGED <<stage_vars, entry, previous, args_force_new, force_new_collection, disk0,
                   error_log, exc>>

\* Node analyze_tech.
AnalyzeTech ==
    /\ entry = "run" /\ pc = "analyze_tech"
    /\ entered' = Append(entered, "analyze_tech")
    /\ IF ~TruthyList(state.job_data)
       THEN /\ state' = [state EXCEPT
                            !.error = Err("Tech analysis failed", "No job data available")]
            /\ error_log' = Append(error_log, [node |-> "analyze_tech",
                                               cause |-> "No job data available"])
            /\ UNCHANGED <<disk, invoked>>
       ELSE \E out \in analyze_tech_requirements(state.job_data.v, RunCompletions(TechAgent)) :
              /\ invoked' = invoked \cup {"analyze_tech_requirements"}
              /\ IF out.raised # ""
                 THEN /\ state' = [state EXCEPT
                                      !.error = Err("Tech analysis failed", out.raised)]
                      /\ error_log' = Append(error_log, [node |-> "analyze_tech",
                                                         cause |-> out.raised])
                      /\ UNCHANGED disk
                 ELSE /\ state' = [state EXCEPT !.tech_analysis = Val(out.value)]
                      /\ disk' = save_json(disk, out.value, "tech_analysis.json")
                      /\ UNCHANGED error_log
    /\ pc' = workflow_edges["analyze_tech"]
    /\ UNCHANGED <<stage_vars, entry, previous, args_force_new, force_new_collection, disk0,
                   loaded, exc>>

\* Node generate_market_report.
GenerateMarketReport ==
    /\ entry = "run" /\ pc = "generate_market_report"
    /\ entered' = Append(entered, "generate_market_report")
    /\ IF ~TruthyList(state.job_data) \/ ~TruthyDict(state.tech_analysis)
       THEN /\ state' = [state EXCEPT
                            !.error = Err("Market report generation failed",
                                          "Missing required data for market report")]
            /\ error_log' = Append(error_log,
                                   [node |-> "generate_market_report",
                                    cause |-> "Missing required data for market report"])
            /\ UNCHANGED <<disk, invoked>>
       ELSE \E out \in generate_report(state.job_data.v, state.tech_analysis.v,
                                       RunCompletions(MarketAgent)) :
              /\ invoked' = invoked \cup {"generate_report"}
              /\ IF out.raised # ""
                 THEN /\ state' = [state EXCEPT
                                      !.error = Err("Market report generation failed",
                                                    out.raised)]
                      /\ error_log' = Append(error_log, [node |-> "generate_market_report",
                                                         cause |-> out.raised])
                      /\ UNCHANGED disk
                 ELSE /\ state' = [state EXCEPT !.market_report = Val(out.value)]
                      /\ disk' = save_json(disk, out.value, "market_report.json")
                      /\ UNCHANGED error_log
    /\ pc' = workflow_edges["generate_market_report"]
    /\ UNCHANGED <<stage_vars, entry, previous, args_force_new, force_new_collection, disk0,
                   loaded, exc>>

\* Node analyze_ai_impact.
AnalyzeAIImpact ==
    /\ entry = "run" /\ pc = "analyze_ai_impact"
    /\ entered' = Append(entered, "analyze_ai_impact")
    /\ IF ~(TruthyList(state.job_data) /\ TruthyDict(state.tech_analysis)
            /\ TruthyDict(state.market_report))
       THEN /\ state' = [state EXCEPT
                            !.error = Err("AI impact analysis failed",
                                          "Missing required data for AI impact analysis")]
            /\ error_log' = Append(error_log,
                                   [node |-> "analyze_ai_impact",
                                    cause |-> "Missing required data for AI impact analysis"])
            /\ UNCHANGED <<disk, invoked>>
       ELSE \E out \in analyze_ai_impact(state.job_data.v, state.tech_analysis.v,
                                         state.market_report.v, RunCompletions(ImpactAgent)) :
              /\ invoked' = invoked \cup {"analyze_ai_impact"}
              /\ IF out.raised # ""
                 THEN /\ state' = [state EXCEPT
                                      !.error = Err("AI impact analysis failed", out.raised)]
                      /\ error_log' = Append(error_log, [node |-> "analyze_ai_impact",
                                                         cause |-> out.raised])
                      /\ UNCHANGED disk
                 ELSE /\ state' = [state EXCEPT !.ai_impact = Val(out.value)]
                      /\ disk' = save_json(disk, out.value, "ai_impact_analysis.json")
                      /\ UNCHANGED error_log
    /\ pc' = workflow_edges["analyze_ai_impact"]
    /\ UNCHANGED <<stage_vars, entry, previous, args_force_new, force_new_collection, disk0,
                   loaded, exc>>

\* Node generate_final_report, then END: run returns the state.
GenerateFinalReport ==
    /\ entry = "run" /\ pc = "generate_final_report"
    /\ entered' = Append(entered, "generate_final_report")
    /\ IF ~(TruthyList(state.job_data) /\ TruthyDict(state.tech_analysis)
            /\ TruthyDict(state.market_report) /\ TruthyDict(state.ai_impact))
       THEN /\ state' = [state EXCEPT
                            !.error = Err("Final report generation failed",
                                          "Missing required data for report generation")]
            /\ error_log' = Append(error_log,
                                   [node |-> "generate_final_report",
                                    cause |-> "Missing required data for report generation"])
            /\ UNCHANGED <<disk, invoked>>
       ELSE \E out \in generate_comprehensive_report(state.job_data.v, state.tech_analysis.v,
                                                     state.market_report.v, state.ai_impact.v) :
              /\ invoked' = invoked \cup {"generate_comprehensive_report"}
              /\ IF out.raised # ""
                 THEN /\ state' = [state EXCEPT
                                      !.error = Err("Final report generation failed",
                                                    out.raised)]
                      /\ error_log' = Append(error_log, [node |-> "generate_final_report",
                                                         cause |-> out.raised])
                      /\ UNCHANGED disk
                 ELSE /\ state' = [state EXCEPT !.final_report = Val(out.value)]
                      /\ disk' = [disk EXCEPT !["final_report.md"] = Val(out.value)]
                      /\ UNCHANGED error_log
    /\ pc' = workflow_edges["generate_final_report"]
    /\ UNCHANGED <<stage_vars, entry, previous, args_force_new, force_new_collection, disk0,
                   loaded, exc>>

\* main up to the loading of the three files it always reads.
MainLoad ==
    /\ entry = "main" /\ pc = "start"
    /\ IF \E f \in {"job_data.json", "tech_analysis.json", "market_report.json"} :
             disk[f].is_none
       THEN /\ pc' = "raised"
            /\ exc' = "FileNotFoundError"
            /\ error_log' = Append(error_log, [node |-> "main", cause |-> "FileNotFoundError"])
            /\ loaded' = {f \in {"job_data.json", "tech_analysis.json"} :
                            /\ ~disk["job_data.json"].is_none
                            /\ f = "tech_analysis.json" => ~disk[f].is_none}
            /\ state' = [initial_state EXCEPT
                            !.job_data = disk["job_data.json"],
                            !.tech_analysis = IF disk["job_data.json"].is_none THEN None
                                              ELSE disk["tech_analysis.json"]]
       ELSE /\ pc' = "main_ai_impact"
            /\ state' = [initial_state EXCEPT
                            !.job_data = disk["job_data.json"],
                            !.tech_analysis = disk["tech_analysis.json"],
                            !.market_report = disk["market_report.json"]]
            /\ loaded' = {"job_data.json", "tech_analysis.json", "market_report.json"}
            /\ UNCHANGED <<exc, error_log>>
    /\ UNCHANGED <<stage_vars, disk, entry, previous, args_force_new, force_new_collection, disk0,
                   entered, invoked>>

\* main: the AI impact analysis, from its file or computed.
MainAIImpact ==
    /\ entry = "main" /\ pc = "main_ai_impact"
    /\ IF ~disk["ai_impact_analysis.json"].is_none
       THEN /\ state' = [state EXCEPT !.ai_impact = disk["ai_impact_analysis.json"]]
            /\ loaded' = loaded \cup {"ai_impact_analysis.json"}
            /\ pc' = "main_final_report"
            /\ UNCHANGED <<disk, invoked, exc, error_log>>
       ELSE \E out \in analyze_ai_impact(state.job_data.v, state.tech_analysis.v,
                                         state.market_report.v, RunCompletions(ImpactAgent)) :
              /\ invoked' = invoked \cup {"analyze_ai_impact"}
              /\ UNCHANGED loaded
              /\ IF out.raised # ""
                 THEN /\ pc' = "raised"
                      /\ exc' = out.raised
                      /\ error_log' = error_log \o
                            <<[node |-> "main_ai_impact", cause |-> out.raised],
                              [node |-> "main", cause |-> out.raised]>>
                      /\ UNCHANGED <<state, disk>>
                 ELSE /\ state' = [state EXCEPT !.ai_impact = Val(out.value)]
                      /\ disk' = save_json(disk, out.value, "ai_impact_analysis.json")
                      /\ pc' = "main_final_report"
                      /\ UNCHANGED <<exc, error_log>>
    /\ UNCHANGED <<stage_vars, entry, previous, args_force_new, force_new_collection, disk0, entered>>

\* main: final_reporter.generate_report(...). FinalReporterAgent defines no
\* generate_report, so the attribute lookup raises and main re-raises.
MainFinalReport ==
    /\ entry = "main" /\ pc = "main_final_report"
    /\ pc' = "raised"
    /\ exc' = "AttributeError"
    /\ error_log' = error_log \o <<[node |-> "main_final_report", cause |-> "AttributeError"],
                                   [node |-> "main", cause |-> "AttributeError"]>>
    /\ UNCHANGED <<stage_vars, disk, entry, previous, args_force_new, force_new_collection, disk0,
                   state, entered, invoked, loaded>>

Next ==
    \/ Run
    \/ RunAgain
    \/ CollectData
    \/ AnalyzeTech
    \/ GenerateMarketReport
    \/ AnalyzeAIImpact
    \/ GenerateFinalReport
    \/ MainLoad
    \/ MainAIImpact
    \/ MainFinalReport

Spec == Init /\ [][Next]_vars

\* ------------------------------------------------ SpecChunk: one _chunk_data
\* Largest number of elements of a list value of a mapping.
MaxElems == 2

\* Every sequence over S of length lo..hi.
SeqsOf(S, lo, hi) == UNION {[1..n -> S] : n \in lo..hi}

\* s with the id of every value set to its position.
Numbered(s) == [k \in 1..Len(s) |-> [s[k] EXCEPT !.id = k]]

\* The items of a list input: strings, and job records with a description.
\* The serialized lengths are short (10), half of max_size (25000), more than
\* half of it (30000) and more than max_size (60000, 120000).
ListItems ==
    {Str(0, n) : n \in {10, 25000, 60000}}
    \cup {Dict(0, <<Field("title", 5, Str(1, 10)),
                    Field("description", 11, Str(2, n))>>) :
            n \in {10, 25000, 120000}}

ListInputs == {List(0, Numbered(s)) : s \in SeqsOf(ListItems, 0, MaxItems)}

\* The values of a mapping input: strings, lists of strings (and one longer
\* list of equal strings), a nested mapping.
MappingValues ==
    {Str(0, n) : n \in {10, 25000, 60000}}
    \cup {List(0, Numbered(s)) :
            s \in SeqsOf({Str(0, 30000), Str(0, 60000)}, 0, MaxElems)}
    \cup {List(0, Numbered([k \in 1..MaxElems + 1 |-> Str(0, 30000)]))}
    \cup {Dict(0, <<Field("summary", 7, Str(1, 60000))>>)}

MappingKeys == <<"technical_skills", "tech_stacks", "emerging_trends", "education">>
MappingKeySizes == <<16, 11, 15, 9>>

MappingInputs ==
    {Dict(0, [k \in 1..Len(s) |->
                Field(MappingKeys[k], MappingKeySizes[k], [s[k] EXCEPT !.id = k])]) :
        s \in SeqsOf(MappingValues, 0, MaxItems)}

ChunkInputs == ListInputs \cup MappingInputs

ChunkInit ==
    /\ call \in {[agent |-> "FinalReporterAgent", data |-> d] : d \in ChunkInputs}
    /\ loop = NewChunking
    /\ status = "looping"
    /\ result = None
    /\ disk = EmptyDisk
    /\ RunIdle

\* One iteration of the loop over a list.
ChunkListItem ==
    /\ status = "looping" /\ call.data.kind = "list"
    /\ loop.index < Len(call.data.parts)
    /\ loop' = ListItemStep(loop, call.data.parts[loop.index + 1])
    /\ UNCHANGED <<call, status, result, disk, run_vars>>

\* One iteration of the loop over a mapping; range() raises on a zero step.
ChunkDictItem ==
    /\ status = "looping" /\ call.data.kind = "dict"
    /\ loop.index < Len(call.data.parts)
    /\ loop' = DictItemStep(loop, call.data.parts[loop.index + 1])
    /\ status' = IF loop'.raised # "" THEN "raised" ELSE "looping"
    /\ UNCHANGED <<call, result, disk, run_vars>>

\* The loop is over: the open chunk is closed and the chunks are returned.
ChunkReturn ==
    /\ status = "looping"
    /\ loop.index = Len(call.data.parts)
    /\ status' = "returned"
    /\ result' = Val(ChunksReturned(loop))
    /\ UNCHANGED <<call, loop, disk, run_vars>>

ChunkNext ==
    \/ ChunkListItem
    \/ ChunkDictItem
    \/ ChunkReturn

SpecChunk == ChunkInit /\ [][ChunkNext]_vars


\* ------------------------------------ SpecStore: one artifact, saved or read
\* What the writer of an artifact may write.
Writes(filename) ==
    IF filename = "job_data.json" THEN {JobList(n) : n \in 0..MaxJobs}
    ELSE IF filename = "tech_analysis.json" THEN {EmptyTech, SampleTech}
    ELSE IF filename = "market_report.json" THEN {OldMarket}
    ELSE IF filename = "ai_impact_analysis.json" THEN {OldImpact}
    ELSE {OldReport}

\* The complete content a file may have from an earlier run.
OldContent(filename) ==
    IF filename = "job_data.json" THEN JobList(5)
    ELSE IF filename = "tech_analysis.json" THEN OldTech
    ELSE IF filename = "market_report.json" THEN OldMarket
    ELSE IF filename = "ai_impact_analysis.json" THEN OldImpact
    ELSE OldReport

\* The code that reads an artifact at the start of a run.
Readers(filename) ==
    IF filename = "job_data.json" THEN {"collect_data", "collect_jobs", "main"}
    ELSE IF filename = "final_report.md" THEN {}
    ELSE {"main"}

\* A call: op is "save" (save_json, or the write of final_report.md, at the
\* end of a stage) or the reader; old is the file when the call began.
StoreCalls(filename) ==
    {[agent |-> "store", op |-> "save", filename |-> filename, data |-> w,
      old |-> o, force_new |-> FALSE] :
        w \in Writes(filename), o \in {None, Partial, Val(OldContent(filename))}}
    \cup (IF filename # "job_data.json" THEN {}
          ELSE {[agent |-> "store", op |-> r, filename |-> filename, data |-> <<>>,
                 old |-> o, force_new |-> f] :
                  r \in {"collect_data", "collect_jobs"},
                  o \in {None, Partial, Val(OldContent(filename))}, f \in BOOLEAN})

NewStore == [step |-> "open", io_error |-> "", killed |-> FALSE, raised |-> ""]

StoreInit ==
    /\ \E filename \in Files : call \in StoreCalls(filename)
    /\ loop = [NewStore EXCEPT !.step = IF call.op = "save" THEN "open" ELSE "read"]
    /\ status = "running"
    /\ result = None
    /\ disk = [EmptyDisk EXCEPT ![call.filename] = call.old]
    /\ RunIdle

StoreRaise(cause, io) ==
    /\ status' = "raised"
    /\ loop' = [loop EXCEPT !.raised = cause, !.io_error = io]
    /\ result' = None

\* with open(output_path, "w") as f: the file is created or truncated, or the
\* open fails and the handler re-raises.
SaveOpen ==
    /\ call.op = "save" /\ status = "running" /\ loop.step = "open"
    /\ \/ /\ disk' = [disk EXCEPT ![call.filename] = Partial]
          /\ loop' = [loop EXCEPT !.step = "dump"]
          /\ UNCHANGED <<status, result>>
       \/ /\ StoreRaise("OSError", "write")
          /\ UNCHANGED disk
    /\ UNCHANGED <<call, run_vars>>

\* json.dump(data, f, indent=2) and the close of the file: the file holds the
\* data, or the write fails half way and the handler re-raises.
SaveDump ==
    /\ call.op = "save" /\ status = "running" /\ loop.step = "dump"
    /\ \/ /\ disk' = save_json(disk, call.data, call.filename)
          /\ status' = "returned"
          /\ result' = Val(call.data)
          /\ loop' = [loop EXCEPT !.step = "done"]
       \/ /\ StoreRaise("OSError", "write")
          /\ UNCHANGED disk
    /\ UNCHANGED <<call, run_vars>>

\* The process is terminated while the stage is saving.
Kill ==
    /\ call.op = "save" /\ status = "running"
    /\ status' = "killed"
    /\ loop' = [loop EXCEPT !.killed = TRUE]
    /\ UNCHANGED <<call, result, disk, run_vars>>

\* The next run comes to the code that reads the artifact.
NextRun ==
    /\ call.op = "save" /\ status \in {"returned", "raised", "killed"}
    /\ \E r \in Readers(call.filename) : call' = [call EXCEPT !.op = r]
    /\ loop' = [loop EXCEPT !.step = "read", !.raised = "", !.io_error = ""]
    /\ status' = "running"
    /\ result' = None
    /\ UNCHANGED <<disk, run_vars>>

\* JobMarketWorkflow.collect_data with a cache read that is logged and
\* replaced by a new collection when it fails.
ReadCollectDataFallingBack ==
    /\ call.op = "collect_data" /\ status = "running" /\ loop.step = "read"
    /\ \E out \in collect_jobs(disk, call.force_new) :
          /\ result' = Val(out.jobs)
          /\ disk' = out.disk
          /\ status' = "returned"
          /\ loop' = [loop EXCEPT !.step = "done",
                                  !.io_error = IF ~disk[call.filename].is_none
                                                  /\ ~call.force_new
                                                  /\ ~Readable(disk[call.filename])
                                               THEN "read" ELSE ""]
    /\ UNCHANGED <<call, run_vars>>

\* JobMarketWorkflow.collect_data: json.load of an existing file is not in a
\* try, so a file that cannot be read raises out of the node.
ReadCollectData ==
    /\ call.op = "collect_data" /\ status = "running" /\ loop.step = "read"
    /\ IF ~disk[call.filename].is_none /\ ~call.force_new
       THEN IF Readable(disk[call.filename])
            THEN /\ result' = disk[call.filename]
                 /\ status' = "returned"
                 /\ loop' = [loop EXCEPT !.step = "done"]
                 /\ UNCHANGED disk
            ELSE /\ StoreRaise("JSONDecodeError", "read")
                 /\ UNCHANGED disk
       ELSE \E out \in collect_jobs(disk, call.force_new) :
              /\ result' = Val(out.jobs)
              /\ disk' = out.disk
              /\ status' = "returned"
              /\ loop' = [loop EXCEPT !.step = "done"]
    /\ UNCHANGED <<call, run_vars>>

\* JobDataCollectorAgent.collect_jobs: a cached file that cannot be read is
\* logged, and the jobs are searched and saved instead.
ReadCollectJobs ==
    /\ call.op = "collect_jobs" /\ status = "running" /\ loop.step = "read"
    /\ \E out \in collect_jobs(disk, call.force_new) :
          /\ result' = Val(out.jobs)
          /\ disk' = out.disk
          /\ status' = "returned"
          /\ loop' = [loop EXCEPT !.step = "done",
                                  !.io_error = IF ~disk[call.filename].is_none
                                                  /\ ~call.force_new
                                                  /\ ~Readable(disk[call.filename])
                                               THEN "read" ELSE ""]
    /\ UNCHANGED <<call, run_vars>>

\* main: open and json.load of a file; only for the AI impact analysis are a
\* missing and an unreadable file caught, and the analysis computed instead.
ReadMain ==
    /\ call.op = "main" /\ status = "running" /\ loop.step = "read"
    /\ IF Readable(disk[call.filename])
       THEN /\ result' = disk[call.filename]
            /\ status' = "returned"
            /\ loop' = [loop EXCEPT !.step = "done"]
            /\ UNCHANGED disk
       ELSE IF call.filename # "ai_impact_analysis.json"
       THEN /\ StoreRaise(IF disk[call.filename].is_none THEN "FileNotFoundError"
                          ELSE "JSONDecodeError",
                          IF disk[call.filename].is_none THEN "" ELSE "read")
            /\ UNCHANGED disk
       ELSE \E out \in analyze_ai_impact(JobList(5), OldTech, OldMarket,
                                          RunCompletions(ImpactAgent)) :
              IF out.raised # ""
              THEN /\ StoreRaise(out.raised, IF disk[call.filename].is_none
                                              THEN "" ELSE "read")
                   /\ UNCHANGED disk
              ELSE /\ result' = Val(out.value)
                   /\ disk' = save_json(disk, out.value, call.filename)
                   /\ status' = "returned"
                   /\ loop' = [loop EXCEPT !.step = "done",
                                           !.io_error = IF disk[call.filename].is_none
                                                        THEN "" ELSE "read"]
    /\ UNCHANGED <<call, run_vars>>

StoreNext ==
    \/ SaveOpen
    \/ SaveDump
    \/ Kill
    \/ NextRun
    \/ ReadCollectData
    \/ ReadCollectJobs
    \/ ReadMain

SpecStore == StoreInit /\ [][StoreNext]_vars

\* ================================================================== claims
ComputeFailures == {"ExternalServiceError", "JSONDecodeError", "TypeError"}

Prefix(node) ==
    IF node = "analyze_tech" THEN "Tech analysis failed"
    ELSE IF node = "generate_market_report" THEN "Market report generation failed"
    ELSE IF node = "analyze_ai_impact" THEN "AI impact analysis failed"
    ELSE "Final report generation failed"

\* C1: in a run of JobMarketWorkflow, when the compute call of a stage raises,
\* no later stage is entered and run() does not return normally.
C1_StageFailureAbortsRun ==
    entry = "run" =>
        \A k \in 1..Len(error_log) :
            error_log[k].cause \in ComputeFailures =>
                /\ entered[Len(entered)] = error_log[k].node
                /\ pc # "returned"

\* C2: when some stage failed, the error the caller has at the end of the run
\* is the one written by the stage that failed first.
C2_TerminalErrorIsFirstFailure ==
    (entry = "run" /\ pc = "returned" /\ error_log # <<>>) =>
        state.error = Err(Prefix(error_log[1].node), error_log[1].cause)

StageFile ==
    [collect_jobs |-> "job_data.json",
     analyze_tech_requirements |-> "tech_analysis.json",
     generate_report |-> "market_report.json",
     analyze_ai_impact |-> "ai_impact_analysis.json",
     generate_comprehensive_report |-> "final_report.md"]

Computes == DOMAIN StageFile

\* C3: a stage whose artifact exists when a run that is not forced starts is
\* not computed in that run.
C3_CachedStageIsNotComputed ==
    (~force_new_collection /\ ~args_force_new) =>
        \A c \in Computes : ~disk0[StageFile[c]].is_none => c \notin invoked

\* C4: started with --force-new, no stage's output is taken from an artifact
\* and, when the program ends, every stage's compute function was invoked.
C4_ForceNewComputesEveryStage ==
    args_force_new =>
        /\ loaded = {}
        /\ pc \in {"returned", "raised"} => invoked = Computes

\* ------------------------------------------------ claims about one stage
InStage == status \in {"looping", "returned", "raised"}

\* C5: a failed worker call (service error or unparseable response) never
\* makes a batched stage raise; the analyses kept at the end are exactly
\* those of the batches that succeeded, every batch having been processed.
C5_BatchFailureIsAbsorbed ==
    InStage =>
        /\ loop.raised \notin {"ExternalServiceError", "JSONDecodeError"}
        /\ status = "returned" =>
              /\ Len(loop.completions) = CeilDiv(Len(call.job_data), batch_size(call.agent))
              /\ loop.all_analyses =
                    LET ok == {k \in 1..Len(loop.completions) :
                                    loop.completions[k].kind = "json"}
                        nth(j) == CHOOSE k \in ok : Cardinality({m \in ok : m < k}) = j - 1
                    IN  [j \in 1..Cardinality(ok) |-> loop.completions[nth(j)].analysis]

\* The least k with k * b >= n.
LeastCover(n, b) == CHOOSE k \in 0..n : k * b >= n /\ (k = 0 \/ (k - 1) * b < n)

\* C6: the batches of a stage are the contiguous slices of the collection in
\* input order, each of batch_size items except a smaller last one, and a
\* loop that ran to its end made ceil(n / batch_size) of them, which
\* together hold every record exactly once.
C6_BatchesPartitionInOrder ==
    InStage =>
        LET n == Len(call.job_data)
            b == batch_size(call.agent)
        IN  /\ \A k \in 1..Len(loop.sent) :
                  /\ Len(loop.sent[k]) = Min(b, n - (k - 1) * b)
                  /\ Len(loop.sent[k]) >= 1
                  /\ \A j \in 1..Len(loop.sent[k]) :
                        loop.sent[k][j] = call.job_data[(k - 1) * b + j]
            /\ (status = "returned" \/ loop.raised = "TypeError") =>
                  /\ Len(loop.sent) = LeastCover(n, b)
                  /\ Concat(loop.sent) = call.job_data

\* C6 witness: 25 records in batches of 10 were cut into 10, 10 and 5.
C6_Witness ==
    /\ status = "returned" /\ call.agent = ImpactAgent /\ Len(call.job_data) = 25
    /\ [k \in 1..Len(loop.sent) |-> Len(loop.sent[k])] = <<10, 10, 5>>

\* What a parsed count is worth: its integer value, 0 when it is no number.
NumericValue(v) == IF v.type = "text" THEN 0 ELSE v.val

RECURSIVE SumFor(_, _)
SumFor(items, key) ==
    IF items = <<>> THEN 0
    ELSE (IF Head(items).key = key THEN NumericValue(Head(items).count) ELSE 0)
         + SumFor(Tail(items), key)

CounterCats(agent) ==
    IF agent = TechAgent THEN TechCounterCats
    ELSE IF agent = MarketAgent THEN MarketCounterCats
    ELSE {}

ListCats(agent) ==
    IF agent = TechAgent THEN {"emerging_trends"}
    ELSE IF agent = ImpactAgent THEN ImpactListCats
    ELSE {}

IsFirstSeenOrder(t, s) ==
    /\ Range(t) = Range(s)
    /\ NoRepeat(t)
    /\ \A a, b \in 1..Len(t) : a < b => IndexOf(s, t[a]) < IndexOf(s, t[b])

\* C8: every set-like list of the aggregate (emerging_trends of tech, the
\* four lists of AI impact) holds each distinct string once, in the order of
\* first appearance over the partial results in batch order.
C8_ListsDedupInFirstSeenOrder ==
    (status = "returned" /\ call.agent \in {TechAgent, ImpactAgent}) =>
        \A cat \in ListCats(call.agent) :
            IsFirstSeenOrder(result.v[cat], CategoryItems(loop.all_analyses, cat))

\* C9: every counter category of the aggregate is in descending order of
\* count, keys of equal count in the order they were first seen over the
\* partial results.
C9_CountersSortedDescTiesFirstSeen ==
    (status = "returned" /\ call.agent \in {TechAgent, MarketAgent}) =>
        \A cat \in CounterCats(call.agent) :
            LET d == result.v[cat]
                seen == DictKeys(CategoryItems(loop.all_analyses, cat))
            IN  \A a, b \in 1..Len(d) :
                    a < b =>
                        \/ d[a].count > d[b].count
                        \/ /\ d[a].count = d[b].count
                           /\ IndexOf(seen, d[a].key) < IndexOf(seen, d[b].key)

\* C9 witness: a key seen last leads with the larger count, and the two tied
\* keys before it follow in the order they were seen.
C9_Witness ==
    /\ status = "returned" /\ call.agent = MarketAgent
    /\ Len(loop.all_analyses) = 2
    /\ LET d == result.v["salary_insights"]
           seen == DictKeys(CategoryItems(loop.all_analyses, "salary_insights"))
       IN  /\ Len(d) = 3
           /\ d[1].count > d[2].count /\ d[2].count = d[3].count
           /\ IndexOf(seen, d[1].key) > IndexOf(seen, d[3].key)
           /\ IndexOf(seen, d[2].key) < IndexOf(seen, d[3].key)

\* Every order of the sequence s.
Orderings(s) ==
    {[k \in 1..Len(s) |-> s[f[k]]] :
        f \in {g \in [1..Len(s) -> 1..Len(s)] : \A a, b \in 1..Len(s) : a # b => g[a] # g[b]}}

\* The outcomes of the merge of a stage on the analyses p.
MergeOutcomes(agent, p, tech_analysis) ==
    IF agent = TechAgent
    THEN {TechCombine(p, o) : o \in ListOfSet(TechTrendSet(p))}
    ELSE IF agent = MarketAgent THEN {MarketCombine(p, tech_analysis)}
    ELSE {ImpactCombine(p)}

Merged == status = "returned" \/ (status = "raised" /\ loop.raised = "TypeError")

\* C10 as claimed: the merge of any permutation of the partial results gives
\* the same aggregate, the order of keys and of list elements included (the
\* trends of tech in the order the set gave them in this run).
C10_MergeIsOrderIndependent ==
    status = "returned" =>
        \A p \in Orderings(loop.all_analyses) :
            IF call.agent = TechAgent
            THEN TechCombine(p, result.v.emerging_trends).value = result.v
            ELSE \A out \in MergeOutcomes(call.agent, p, call.tech_analysis) :
                    out.value = result.v

\* C10 as amended: the merge of any permutation raises exactly when this one
\* does, and otherwise gives, in every counter category, the same keys with
\* the same counts, and in every list category the same elements, each once.
C10_MergeIsOrderIndependentUpToOrder ==
    Merged =>
        \A p \in Orderings(loop.all_analyses) :
            \A out \in MergeOutcomes(call.agent, p, call.tech_analysis) :
                /\ (out.raised # "") = (status = "raised")
                /\ status = "returned" =>
                      /\ \A cat \in CounterCats(call.agent) :
                            /\ Range(out.value[cat]) = Range(result.v[cat])
                            /\ Len(out.value[cat]) = Len(result.v[cat])
                      /\ \A cat \in ListCats(call.agent) :
                            /\ Range(out.value[cat]) = Range(result.v[cat])
                            /\ Len(out.value[cat]) = Len(result.v[cat])
                            /\ NoRepeat(out.value[cat])

\* C10 witness: two different partial results were merged, and merged in the
\* other order they give the same counts in another order of keys.
C10_Witness ==
    /\ status = "returned" /\ call.agent = MarketAgent
    /\ Len(loop.all_analyses) = 2
    /\ LET out == MarketCombine(<<loop.all_analyses[2], loop.all_analyses[1]>>,
                                call.tech_analysis)
       IN  /\ out.value # result.v
           /\ Range(out.value.salary_insights) = Range(result.v.salary_insights)
           /\ \E x \in 1..Len(result.v.salary_insights) :
                 result.v.salary_insights[x].count = 3

\* -------------------------------------------- claims about _chunk_data
Chunking == call.agent = "FinalReporterAgent"

\* The input entries of _chunk_data: the items of a list, the fields of a mapping.
Entries == call.data.parts

EntryValue(e) == IF call.data.kind = "list" THEN e ELSE e.value

\* The position in the input of an entry of a chunk.
EntryPos(e) == EntryValue(e).id

\* The chunk holds nothing but one item that was larger than max_size and is
\* not a piece of a subdivided list value.
SingleOversizedItem(chunk) ==
    /\ Len(chunk) = 1
    /\ LET v == EntryValue(Entries[EntryPos(chunk[1])])
       IN  json_size(v) > max_size
           /\ (call.data.kind = "dict" => v.kind # "list")

\* C11: every chunk returned, except one made of a single oversized item, is
\* at most max_size long when serialized whole, the chunks cut from an
\* oversized list value included.
C11_ChunksFitMaxSize ==
    (Chunking /\ status = "returned") =>
        \A c \in 1..Len(result.v) :
            ~SingleOversizedItem(result.v[c]) =>
                json_size(ChunkValue(call.data, result.v[c])) <= max_size

\* The input positions of the entries of the chunks, read in order.
Visited(chunks) == Concat([c \in 1..Len(chunks) |->
                             [j \in 1..Len(chunks[c]) |-> EntryPos(chunks[c][j])]])

\* C12: reading the chunks in order, and the entries of each chunk in order,
\* never visits an input entry before one that precedes it in the input.
C12_ChunkOrderIsInputOrder ==
    (Chunking /\ status = "returned") =>
        LET v == Visited(result.v)
        IN  \A a, b \in 1..Len(v) : a < b => v[a] <= v[b]

\* The entries of the chunks that come from input position p.
From(chunks, p) ==
    UNION {{<<c, j>> : j \in {i \in 1..Len(chunks[c]) : EntryPos(chunks[c][i]) = p}} :
              c \in 1..Len(chunks)}

\* The list value of the field f was cut into sub-lists.
Subdivided(f) == f.value.kind = "list" /\ json_size(f.value) > max_size

\* C13: when the call is over, every list item and every mapping key whose
\* value was not subdivided is in exactly one returned chunk, and every
\* element of a subdivided list value is in exactly one of the sub-lists
\* returned under its key.
C13_NoItemDropped ==
    (Chunking /\ status \in {"returned", "raised"}) =>
        /\ status = "returned"
        /\ \A p \in 1..Len(Entries) :
              IF call.data.kind = "dict" /\ Subdivided(Entries[p])
              THEN \A e \in 1..Len(Entries[p].value.parts) :
                      Cardinality({cj \in From(result.v, p) :
                          \E x \in 1..Len(result.v[cj[1]][cj[2]].value.parts) :
                             result.v[cj[1]][cj[2]].value.parts[x].id = e}) = 1
              ELSE Cardinality(From(result.v, p)) = 1

\* C14: _chunk_data raises on no input.
C14_ChunkDataNeverRaises ==
    Chunking => status # "raised"

\* -------------------------------------------------- claims about one run
\* C15: the final report is computed from the tech analysis, the market
\* report and the AI impact analysis of the run, each bound to the parameter
\* generate_comprehensive_report declares for it.
C15_FinalReportGetsItsInputs ==
    (entry = "run" /\ ~state.final_report.is_none) =>
        /\ state.final_report.v.tech_analysis = state.tech_analysis.v
        /\ state.final_report.v.market_analysis = state.market_report.v
        /\ state.final_report.v.ai_impact_analysis = state.ai_impact.v

NodeOrder == <<"collect_data", "analyze_tech", "generate_market_report",
               "analyze_ai_impact", "generate_final_report">>

\* The stages: the node, the compute function, the state field and the file
\* of its output, and the fields of the upstream outputs it requires.
Stages ==
    {[node |-> "collect_data", compute |-> "collect_jobs", field |-> "job_data",
      file |-> "job_data.json", upstream |-> {}],
     [node |-> "analyze_tech", compute |-> "analyze_tech_requirements",
      field |-> "tech_analysis", file |-> "tech_analysis.json",
      upstream |-> {"job_data"}],
     [node |-> "generate_market_report", compute |-> "generate_report",
      field |-> "market_report", file |-> "market_report.json",
      upstream |-> {"job_data", "tech_analysis"}],
     [node |-> "analyze_ai_impact", compute |-> "analyze_ai_impact",
      field |-> "ai_impact", file |-> "ai_impact_analysis.json",
      upstream |-> {"job_data", "tech_analysis", "market_report"}],
     [node |-> "generate_final_report", compute |-> "generate_comprehensive_report",
      field |-> "final_report", file |-> "final_report.md",
      upstream |-> {"job_data", "tech_analysis", "market_report", "ai_impact"}]}

StageOf(field) == CHOOSE s \in Stages : s.field = field

\* The stage completed in this run, or its output was loaded from its file.
Completed(s) ==
    /\ ~state[s.field].is_none
    /\ \/ s.file \in loaded
       \/ /\ s.compute \in invoked
          /\ \A k \in 1..Len(error_log) : error_log[k].node # s.node

\* C16: the nodes are entered one after the other in the order of the chain, and
\* the compute function of a stage is invoked only when every upstream stage
\* has completed in this run or was loaded from its file.
C16_StagesRunAfterTheirUpstreams ==
    /\ entered = SubSeq(NodeOrder, 1, Len(entered))
    /\ \A s \in Stages :
          s.compute \in invoked => \A u \in s.upstream : Completed(StageOf(u))

\* C16 witness: a run entered the five nodes and computed every stage.
C16_Witness ==
    /\ entry = "run" /\ pc = "returned"
    /\ entered = NodeOrder
    /\ invoked = {s.compute : s \in Stages}

\* The error a node writes when an upstream output is absent.
DependencyMissing ==
    {"No job data available", "Missing required data for market report",
     "Missing required data for AI impact analysis",
     "Missing required data for report generation", "FileNotFoundError"}

\* C17: when a stage was entered with an upstream output absent, the run does
\* not return normally: it ends with the dependency-missing error raised to
\* the caller.
C17_MissingUpstreamIsFatal ==
    (\E k \in 1..Len(error_log) : error_log[k].cause \in DependencyMissing) =>
        /\ pc # "returned"
        /\ pc = "raised" => exc \in DependencyMissing

\* The run is not in forced-refresh mode.
NotForced == ~force_new_collection /\ ~args_force_new

\* C18: in a run that is not forced, every stage artifact that existed when
\* the run started keeps the content it had then.
C18_ArtifactsNotRewritten ==
    NotForced =>
        \A s \in Stages : ~disk0[s.file].is_none => disk[s.file] = disk0[s.file]

UpstreamFiles == {"job_data.json", "tech_analysis.json", "market_report.json",
                  "ai_impact_analysis.json"}

\* C19: main started with the four upstream artifacts present loads them,
\* invokes no upstream compute function and completes the final report.
C19_ReportOnlyRunsFinalStage ==
    (entry = "main" /\ \A f \in UpstreamFiles : ~disk0[f].is_none) =>
        /\ invoked \subseteq {"generate_comprehensive_report"}
        /\ pc # "raised"
        /\ pc = "returned" =>
              /\ loaded = UpstreamFiles
              /\ ~state.final_report.is_none

\* C20: a second run, not forced, after a run that completed every stage,
\* ends with the same final report and the same content of every stage
\* artifact as the first.
C20_SecondRunGivesSameResult ==
    (/\ entry = "run" /\ ~force_new_collection /\ ~previous.is_none
     /\ previous.v.state.error.is_none /\ pc = "returned") =>
        /\ state.final_report = previous.v.state.final_report
        /\ \A s \in Stages : disk[s.file] = previous.v.disk[s.file]

\* C24: for an empty list and for an empty mapping _chunk_data returns the
\* empty sequence of chunks and does not raise.
C24_EmptyInputGivesNoChunk ==
    (Chunking /\ Entries = <<>> /\ status # "looping") =>
        /\ status = "returned"
        /\ result = Val(<<>>)

\* C24 witness: the call on an empty mapping has returned.
C24_Witness ==
    Chunking /\ call.data.kind = "dict" /\ Entries = <<>> /\ status = "returned"

\* The sub-lists returned for the key at input position p, in output order.
Pieces(chunks, p) ==
    LET at == {c \in 1..Len(chunks) : EntryPos(chunks[c][1]) = p}
        nth(j) == CHOOSE c \in at : Cardinality({m \in at : m < c}) = j - 1
    IN  [j \in 1..Cardinality(at) |-> chunks[nth(j)][1].value.parts]

\* C25: when _chunk_data returns, a list value longer than max_size has been
\* emitted under its key as ceil(value_size / max_size) sub-lists whose lengths
\* differ by at most one and whose concatenation is the list.
C25_OversizedListCutInNEqualParts ==
    (Chunking /\ call.data.kind = "dict" /\ status = "returned") =>
        \A p \in 1..Len(Entries) :
            Subdivided(Entries[p]) =>
                LET ps == Pieces(result.v, p)
                IN  /\ Len(ps) = CeilDiv(json_size(Entries[p].value), max_size)
                    /\ \A a, b \in 1..Len(ps) : Len(ps[a]) - Len(ps[b]) <= 1
                    /\ Concat(ps) = Entries[p].value.parts

\* The k-th batch of the call: the k-th contiguous slice of the collection.
KthBatch(k) ==
    Slice(call.job_data, (k - 1) * batch_size(call.agent), k * batch_size(call.agent))

\* C26: the batches are handled one at a time in increasing index order: the
\* events of the loop are, for k = 1, 2, ..., the record "Processing batch k
\* of total" and then one call of the worker on the k-th batch, and nothing
\* else, so that no batch is logged twice or given to the worker twice.
C26_OneLogThenOneCallPerBatch ==
    InStage =>
        LET ev == loop.events
            total == CeilDiv(Len(call.job_data), batch_size(call.agent))
        IN  /\ Len(ev) = 2 * loop.batch_no
            /\ loop.batch_no <= total
            /\ status = "returned" => loop.batch_no = total
            /\ \A k \in 1..loop.batch_no :
                  /\ ev[2 * k - 1] = [type |-> "log", index |-> k, total |-> total]
                  /\ ev[2 * k] = [type |-> "invoke", batch |-> KthBatch(k)]

\* C26 witness: a stage of two batches returned after the first batch failed
\* to parse.
C26_Witness ==
    /\ InStage /\ status = "returned" /\ call.agent = MarketAgent
    /\ Len(loop.completions) = 2
    /\ loop.completions[1].kind = "unparseable"
    /\ Len(loop.events) = 4

\* C27: at every point of a run of JobMarketWorkflow, when the output of a
\* stage is set in the state, the output of every upstream stage is set too.
C27_StateIsPrefixClosed ==
    entry = "run" =>
        \A s \in Stages :
            ~state[s.field].is_none => \A u \in s.upstream : ~state[u].is_none

\* C27 witness: a run has set the final report.
C27_Witness ==
    entry = "run" /\ ~state.final_report.is_none /\ ~state.job_data.is_none

\* C28: within a run the error field, once set, is never reset, and a run
\* that has returned has set either the final report or the error, not both.
C28_ErrorKeptAndExclusive ==
    /\ [](entry = "run" /\ pc = "returned" =>
             (state.final_report.is_none # state.error.is_none))
    /\ [][(entry = "run" /\ ~state.error.is_none /\ previous' = previous)
             => ~state'.error.is_none]_vars

\* C28 witness: a run returned with an error that a later stage wrote over the
\* error of the stage that failed first.
C28_Witness ==
    /\ entry = "run" /\ pc = "returned"
    /\ ~state.error.is_none /\ state.final_report.is_none
    /\ Len(error_log) >= 2

\* C29: when the collection is an empty list, analyze_tech does not invoke the
\* tech analyzer and records a 'Tech analysis failed' error, and no later
\* stage of the run invokes its compute function.
C29_EmptyCollectionStopsComputing ==
    (entry = "run" /\ state.job_data = Val(<<>>)) =>
        /\ invoked \subseteq {"collect_jobs"}
        /\ Len(entered) >= 2 =>
              /\ error_log[1] = [node |-> "analyze_tech", cause |-> "No job data available"]
              /\ ~state.error.is_none
              /\ Len(entered) = 2 =>
                    state.error = Err("Tech analysis failed", "No job data available")

\* C29 witness: a run on an empty collection entered every node and returned.
C29_Witness ==
    /\ entry = "run" /\ pc = "returned" /\ state.job_data = Val(<<>>)
    /\ entered = NodeOrder

\* What a batched stage returns when no completion of its batches parses.
AllUnparseable(agent, job_data, tech_analysis) ==
    LET l == RunLoop(agent, job_data, NewLoop,
                     [k \in 1..NumBatches(job_data, agent) |-> Unparseable])
    IN  IF l.raised # "" THEN [raised |-> l.raised, value |-> <<>>]
        ELSE IF agent = TechAgent THEN TechCombine(l.all_analyses, <<>>)
        ELSE MarketCombine(l.all_analyses, tech_analysis)

\* C30: when no batch of the tech analysis (of the market report) parses, the
\* stage does not raise and returns an aggregate whose categories are all
\* empty; when a run has computed that aggregate it is in the stage's file,
\* and the next node of the chain has invoked its compute function.
C30_AllUnparseableStillCompletes ==
    (entry = "run" /\ TruthyList(state.job_data)) =>
        LET t == AllUnparseable(TechAgent, state.job_data.v, EmptyTech)
        IN  /\ t.raised = ""
            /\ \A cat \in TechCounterCats \cup {"emerging_trends"} : t.value[cat] = <<>>
            /\ ("analyze_tech_requirements" \in invoked /\ state.tech_analysis = Val(t.value)) =>
                  /\ disk["tech_analysis.json"] = Val(t.value)
                  /\ Len(entered) >= 3 => "generate_report" \in invoked
                  /\ LET m == AllUnparseable(MarketAgent, state.job_data.v, t.value)
                     IN  /\ m.raised = ""
                         /\ \A cat \in MarketCounterCats : m.value[cat] = <<>>
                         /\ state.market_report = Val(m.value) =>
                               /\ disk["market_report.json"] = Val(m.value)
                               /\ Len(entered) >= 4 => "analyze_ai_impact" \in invoked

\* C30 witness: in a run no tech completion and no market completion parsed,
\* and the AI impact analysis was computed.
C30_Witness ==
    /\ entry = "run" /\ TruthyList(state.job_data)
    /\ state.tech_analysis = Val(AllUnparseable(TechAgent, state.job_data.v, EmptyTech).value)
    /\ state.market_report =
          Val(AllUnparseable(MarketAgent, state.job_data.v, state.tech_analysis.v).value)
    /\ "analyze_ai_impact" \in invoked

\* C22: when a stage of a run failed, the artifacts of the stages that had
\* completed hold their outputs, and the next run, not forced, invokes the
\* compute function of none of those stages.
C22_CompletedStagesAreReused ==
    entry = "run" =>
        /\ error_log # <<>> =>
              \A s \in Stages \ {StageOf("final_report")} :
                  (~state[s.field].is_none /\ s.compute \in invoked) =>
                      disk[s.file] = state[s.field]
        /\ (~previous.is_none /\ ~force_new_collection /\ ~previous.v.state.error.is_none) =>
              \A s \in Stages :
                  ~previous.v.state[s.field].is_none => s.compute \notin invoked

\* ------------------------------------------- claims about the artifacts
Storing == call.agent = "store"

\* C21: when the process was terminated while an artifact was being saved
\* over no file or over a complete one, the file is absent, or holds the complete old value or the complete new
\* value, and the next run does not fail reading it.
C21_KilledSaveLeavesCompleteArtifact ==
    (Storing /\ loop.killed /\ (call.old.is_none \/ Readable(call.old))) =>
        /\ loop.step # "read" =>
              disk[call.filename] \in {None, call.old, Val(call.data)}
        /\ loop.raised # "JSONDecodeError"

====
